---------------------------- MODULE Spec2Model ----------------------------
(***************************************************************************)
(* A model of farasa.py: the wrapper around the Farasa segmenter and POS   *)
(* tagger jars.  A text, and the UTF-8 content of a file, is a sequence of *)
(* characters; a character is a string naming it.  Reading and writing a   *)
(* file in text mode translate line breaks as Python does.  The external   *)
(* jars are opaque: what they emit is a nondeterministic choice from a     *)
(* bounded set of texts.  In the tagger's output each lexeme the script's  *)
(* patterns spell out (S/S, E/E, a tagged token) is one symbol.            *)
(***************************************************************************)
EXTENDS Integers, Sequences, FiniteSets, TLC

\* ------------------------------------------------------------------ bounds
MaxRawLen == 4      \* the longest text the segmenter emits

\* =================================================================== state
VARIABLES
  linesep,              \* os.linesep of the platform
  \* segment
  spc,                  \* "idle", "call", "post", "done", "failed"
  via,                  \* who called segment: "none", "lib", "main"
  restore_ta_marbuta,   \* segment's argument
  split_char,           \* segment's argument
  emitted,              \* what the segmenter jar wrote to outfp
  segOut,               \* the content of segment's outfp
  \* POS_tag
  tpc,                  \* "idle", "direct", "pre", "call", "post", "done", "failed"
  only_Arabic,          \* POS_tag's argument
  ditch_non_Arabic,     \* POS_tag's argument
  inFile,               \* the content of infp
  non_ar,               \* the spans findall remembered
  tempFile,             \* the content of temp.txt
  taggerIn,             \* what the tagger jar read
  tagged,               \* what the tagger jar wrote to outfp
  tagOut,               \* the content of POS_tag's outfp
  slots,                \* the slots the restoration filled
  \* batchprocess
  bpc,                  \* "idle", "loop", "returned", "raised"
  infolder,             \* batchprocess's argument
  outfolder,            \* batchprocess's argument
  listing,              \* os.listdir(infolder)
  bidx,                 \* the position of the loop in the listing
  calls,                \* the calls of func so far, in order
  \* main
  mpc,                  \* "idle", "func", "in", "out", "dispatch", "done"
  argv,                 \* the options of the command line
  m_func, m_infp, m_outfp, m_split, m_restore, m_ditch,    \* main's locals
  printed,              \* the messages printed, in order
  prompts,              \* the prompts asked, in order
  invoked,              \* the call main made, or NoCall
  \* overlapping POS_tag invocations
  cpc,                  \* per invocation: "idle", "direct", "pre", "call", "done"
  cargs,                \* per invocation: its document and flags
  sharedTemp,           \* the content of temp.txt, shared
  cTaggerIn,            \* per invocation: what its tagger run read
  cTouched,             \* per invocation: whether it read or wrote temp.txt
  overlapped            \* whether two invocations were ever in progress together

segVars   == <<spc, via, restore_ta_marbuta, split_char, emitted, segOut>>
tagVars   == <<tpc, only_Arabic, ditch_non_Arabic, inFile, non_ar, tempFile,
               taggerIn, tagged, tagOut, slots>>
batchVars == <<bpc, infolder, outfolder, listing, bidx, calls>>
mainVars  == <<mpc, argv, m_func, m_infp, m_outfp, m_split, m_restore, m_ditch,
               printed, prompts, invoked>>
concVars  == <<cpc, cargs, sharedTemp, cTaggerIn, cTouched, overlapped>>
vars == <<linesep, segVars, tagVars, batchVars, mainVars, concVars>>

\* One run of the script performs one operation (main's if/elif, lines 222-239):
\* an operation starts only while no other has.
NothingStarted ==
  /\ spc = "idle" /\ tpc = "idle" /\ bpc = "idle" /\ mpc = "idle"
  /\ \A p \in DOMAIN cpc : cpc[p] = "idle"

\* -------------------------------------------------------------- characters
PLUS == "+"
TA   == "ta"      \* the letter ta marbuta
AT   == "@"
BSL  == "bs"      \* a backslash
LF   == "LF"      \* \n
CR   == "CR"      \* \r
LTR  == "k"       \* some Arabic letter other than ta marbuta

\* Python's optional string: None, or a str (a sequence of characters).
None   == [none |-> TRUE,  s |-> <<>>]
Str(s) == [none |-> FALSE, s |-> s]
Truthy(v) == ~v.none /\ v.s # <<>>

RECURSIVE SeqsUpTo(_, _)
SeqsUpTo(S, n) ==
  IF n = 0 THEN {<<>>}
  ELSE LET shorter == SeqsUpTo(S, n - 1)
       IN  shorter \cup {Append(t, c) : t \in shorter, c \in S}

\* ---------------------------------------------------------------- file I/O
\* os.linesep of the platform the script runs on.
LineSeps == {<<LF>>, <<CR, LF>>}

\* open(..., mode="r").read(): universal newlines, \r\n and \r become \n.
RECURSIVE ReadText(_)
ReadText(data) ==
  IF data = <<>> THEN <<>>
  ELSE IF Head(data) = CR
       THEN <<LF>> \o ReadText(IF Len(data) >= 2 /\ data[2] = LF
                               THEN SubSeq(data, 3, Len(data))
                               ELSE Tail(data))
       ELSE <<Head(data)>> \o ReadText(Tail(data))

\* open(..., mode="w").write(text): every \n is written as os.linesep.
RECURSIVE WriteText(_, _)
WriteText(text, sep) ==
  IF text = <<>> THEN <<>>
  ELSE (IF Head(text) = LF THEN sep ELSE <<Head(text)>>)
       \o WriteText(Tail(text), sep)

\* ------------------------------------------------------------------ re.sub
\* re.sub of a pattern that matches one literal string: leftmost,
\* non-overlapping matches, scanning left to right.
RECURSIVE ReSubLit(_, _, _)
ReSubLit(pat, repl, text) ==
  IF text = <<>> THEN <<>>
  ELSE IF Len(text) >= Len(pat) /\ SubSeq(text, 1, Len(pat)) = pat
       THEN repl \o ReSubLit(pat, repl, SubSeq(text, Len(pat) + 1, Len(text)))
       ELSE <<Head(text)>> \o ReSubLit(pat, repl, Tail(text))

\* re.sub parses its replacement as a template: a backslash that ends the
\* template is "bad escape (end of pattern)" and re.sub raises re.error.  (The
\* replacements here are the empty string or one character.)
TemplateError(repl) == repl # <<>> /\ repl[Len(repl)] = BSL

\* ================================================================ segment
\* The split characters a caller passes (one character, or the empty string).
SplitStrings == {<<>>, <<PLUS>>, <<AT>>, <<BSL>>}

\* What the segmenter may emit.
SegAlphabet == {PLUS, TA, AT, LTR, LF, CR}
ExampleRaw  == <<LTR, LTR, LTR, LTR, PLUS, TA>>      \* kitab+ta
RawOutputs  == SeqsUpTo(SegAlphabet, MaxRawLen) \cup {ExampleRaw}

\* main's options that reach segment: -r and -s.
MainSplitChar(sGiven, sArg) == IF sGiven THEN Str(sArg) ELSE None

\* Lines 88-91: the two substitutions on the text read from outfp.
SplitFirstText(text, restore, split) ==
  LET t1 == IF Truthy(split) THEN ReSubLit(<<PLUS>>, split.s, text) ELSE text
  IN  IF restore THEN ReSubLit(<<PLUS, TA>>, <<TA>>, t1) ELSE t1

SegmentText(text, restore, split) ==
  LET t1 == IF restore THEN ReSubLit(<<PLUS, TA>>, <<TA>>, text) ELSE text
  IN  IF Truthy(split) THEN ReSubLit(<<PLUS>>, split.s, t1) ELSE t1

\* Lines 85-93: [err, data]: whether segment raised, and outfp afterwards.
SegmentPost(data, restore, split, sep) ==
  IF restore \/ split # Str(<<PLUS>>)
  THEN IF Truthy(split) /\ TemplateError(split.s)
       THEN [err |-> TRUE, data |-> data]
       ELSE [err |-> FALSE,
             data |-> WriteText(SegmentText(ReadText(data), restore, split), sep)]
  ELSE [err |-> FALSE, data |-> data]

InitSeg ==
  /\ spc = "idle" /\ via = "none"
  /\ restore_ta_marbuta = FALSE /\ split_char = Str(<<PLUS>>)
  /\ emitted = <<>> /\ segOut = <<>>

\* segment(infp, outfp, restore_ta_marbuta=..., split_char=...) from Python.
SegmentFromLibrary ==
  /\ NothingStarted
  /\ spc = "idle"
  /\ \E r \in BOOLEAN, s \in SplitStrings :
       /\ restore_ta_marbuta' = r
       /\ split_char' = Str(s)
  /\ via' = "lib" /\ spc' = "call"
  /\ UNCHANGED <<linesep, emitted, segOut, tagVars, batchVars, mainVars, concVars>>

\* main's call of segment (lines 190-229): split_char is None without -s.
SegmentFromMain ==
  /\ NothingStarted
  /\ spc = "idle"
  /\ \E r \in BOOLEAN, sGiven \in BOOLEAN, sArg \in SplitStrings :
       /\ restore_ta_marbuta' = r
       /\ split_char' = MainSplitChar(sGiven, sArg)
  /\ via' = "main" /\ spc' = "call"
  /\ UNCHANGED <<linesep, emitted, segOut, tagVars, batchVars, mainVars, concVars>>

\* Line 81: the segmenter jar writes outfp.
SegmenterRun ==
  /\ spc = "call"
  /\ \E raw \in RawOutputs : emitted' = raw /\ segOut' = raw
  /\ spc' = "post"
  /\ UNCHANGED <<linesep, via, restore_ta_marbuta, split_char, tagVars, batchVars,
                 mainVars, concVars>>

\* Lines 85-93.
SegmentPostProcess ==
  /\ spc = "post"
  /\ LET r == SegmentPost(segOut, restore_ta_marbuta, split_char, linesep)
     IN  /\ segOut' = r.data
         /\ spc' = IF r.err THEN "failed" ELSE "done"
  /\ UNCHANGED <<linesep, via, restore_ta_marbuta, split_char, emitted, tagVars,
                 batchVars, mainVars, concVars>>

\* ================================================================ POS_tag
\* --------------------------------------------- characters of a document
LATA == "a"       \* a Latin letter
LATB == "b"       \* another Latin letter
DOT  == "."
SP   == " "
HASH == "#"
BAR  == "|"
DOL  == "$"
MU   == "mu"      \* the placeholder character
LB   == "{"
RB   == "}"

\* ------------------------------------ lexemes of the tagger's output
SS  == "S/S"       \* sentence start
EE  == "E/E"       \* sentence end
MUP == "mu/PUNC"   \* a tagged placeholder character
HP  == "#/PUNC"    \* a tagged #
TOK == "k/NOUN"    \* a tagged Arabic word

\* Line 119: non_ar_regex = "([a-zA-Z\d .;#\n\r]{6,}[^\n\r][a-zA-Z\d.;#])"
MinRun    == 6
NonArRun  == {LATA, LATB, DOT, SP, HASH, LF, CR}     \* [a-zA-Z\d .;#\n\r]
NonArLast == {LATA, LATB, DOT, HASH}                 \* [a-zA-Z\d.;#]

MaxOf(S) == CHOOSE m \in S : \A x \in S : x <= m

RECURSIVE RunLen(_, _)
RunLen(text, i) ==
  IF i <= Len(text) /\ text[i] \in NonArRun THEN 1 + RunLen(text, i + 1) ELSE 0

\* The index of the last character of the match of non_ar_regex that starts
\* at i, or 0: the greedy run backs off to the longest one the tail follows.
NonArMatchEnd(text, i) ==
  LET ks == {k \in MinRun..RunLen(text, i) :
               /\ i + k + 1 <= Len(text)
               /\ text[i + k] \notin {LF, CR}
               /\ text[i + k + 1] \in NonArLast}
  IN  IF ks = {} THEN 0 ELSE i + MaxOf(ks) + 1

\* Line 130: re.findall(non_ar_regex, text), scanning from i.
RECURSIVE FindAllNonAr(_, _)
FindAllNonAr(text, i) ==
  IF i > Len(text) THEN <<>>
  ELSE LET e == NonArMatchEnd(text, i)
       IN  IF e = 0 THEN FindAllNonAr(text, i + 1)
           ELSE <<SubSeq(text, i, e)>> \o FindAllNonAr(text, e + 1)

\* Lines 123, 131: re.sub(non_ar_regex, repl, text), scanning from i.
RECURSIVE SubNonAr(_, _, _)
SubNonAr(text, repl, i) ==
  IF i > Len(text) THEN <<>>
  ELSE LET e == NonArMatchEnd(text, i)
       IN  IF e = 0 THEN <<text[i]>> \o SubNonAr(text, repl, i + 1)
           ELSE repl \o SubNonAr(text, repl, e + 1)

\* Line 124: re.sub("[#\|\$]", "", ar_only)
StripChars == {HASH, BAR, DOL}
DropStripChars(text) == SelectSeq(text, LAMBDA c : c \notin StripChars)

\* str.splitlines(): \n, \r and \r\n end a line; no empty last line.
RECURSIVE SplitLines(_, _)
SplitLines(text, cur) ==
  IF text = <<>> THEN (IF cur = <<>> THEN <<>> ELSE <<cur>>)
  ELSE IF Head(text) = CR /\ Len(text) >= 2 /\ text[2] = LF
       THEN <<cur>> \o SplitLines(SubSeq(text, 3, Len(text)), <<>>)
       ELSE IF Head(text) \in {LF, CR}
            THEN <<cur>> \o SplitLines(Tail(text), <<>>)
            ELSE SplitLines(Tail(text), Append(cur, Head(text)))

\* str.strip(): whitespace off both ends.
Whitespace == {SP, LF, CR}
RECURSIVE LStrip(_)
LStrip(s) == IF s # <<>> /\ Head(s) \in Whitespace THEN LStrip(Tail(s)) ELSE s
RECURSIVE RStrip(_)
RStrip(s) ==
  IF s # <<>> /\ s[Len(s)] \in Whitespace THEN RStrip(SubSeq(s, 1, Len(s) - 1)) ELSE s
Strip(s) == RStrip(LStrip(s))

\* "\n".join(lines)
RECURSIVE JoinLines(_)
JoinLines(lines) ==
  IF lines = <<>> THEN <<>>
  ELSE IF Len(lines) = 1 THEN lines[1]
       ELSE lines[1] \o <<LF>> \o JoinLines(Tail(lines))

\* Lines 125-127: the stripped non-blank lines, joined.
StrippedLines(text) ==
  LET lines == SplitLines(text, <<>>)
      kept  == SelectSeq(lines, LAMBDA l : Strip(l) # <<>>)
  IN  JoinLines([i \in 1..Len(kept) |-> Strip(kept[i])])

Placeholder == <<LF, MU, MU, MU, LF>>      \* "\nµµµ\n"

\* Lines 121-127: removal mode.
KeepStripCharsDitch(text) == StrippedLines(SubNonAr(text, <<LF>>, 1))

DitchText(text) == StrippedLines(DropStripChars(SubNonAr(text, <<LF>>, 1)))

\* Lines 128-131: preservation mode.
PreserveText(text) == SubNonAr(text, Placeholder, 1)

\* ---------------------------------------------------------- restoration
\* Line 148: the tagged placeholder line, "S/S µ/PUNC µ/PUNC µ/PUNC E/E".
TaggedPlaceholder == <<SS, SP, MUP, SP, MUP, SP, MUP, SP, EE>>

RECURSIVE SkipWhile(_, _, _)
SkipWhile(text, i, S) ==
  IF i <= Len(text) /\ text[i] \in S THEN SkipWhile(text, i + 1, S) ELSE i

StartsAt(text, i, pat) ==
  i + Len(pat) - 1 <= Len(text) /\ SubSeq(text, i, i + Len(pat) - 1) = pat

\* Line 149: re.sub(r"[\n\r]*S/S µ/PUNC µ/PUNC µ/PUNC E/E[\n\r]*", "{}", ar_only)
RECURSIVE SubTaggedPlaceholder(_, _)
SubTaggedPlaceholder(text, i) ==
  IF i > Len(text) THEN <<>>
  ELSE LET j == SkipWhile(text, i, {LF, CR})
       IN  IF StartsAt(text, j, TaggedPlaceholder)
           THEN <<LB, RB>> \o SubTaggedPlaceholder(
                  text, SkipWhile(text, j + Len(TaggedPlaceholder), {LF, CR}))
           ELSE <<text[i]>> \o SubTaggedPlaceholder(text, i + 1)

\* How many tagged placeholder lines line 148's pattern finds in a text.
RECURSIVE CountTaggedPlaceholders(_, _)
CountTaggedPlaceholders(text, i) ==
  IF i > Len(text) THEN 0
  ELSE IF StartsAt(text, i, TaggedPlaceholder)
       THEN 1 + CountTaggedPlaceholders(text, i + Len(TaggedPlaceholder))
       ELSE CountTaggedPlaceholders(text, i + 1)

\* Line 150: ar_only.format(*non_ar).  "{{" and "}}" are literal braces, "{}"
\* is the next positional argument (IndexError when there is none), and any
\* other brace is a ValueError or a KeyError.  n arguments are used so far.
FormatError == [err |-> TRUE, out |-> <<>>, used |-> 0]
RECURSIVE Format(_, _, _)
Format(t, args, n) ==
  LET cons(x, r) == IF r.err THEN r ELSE [r EXCEPT !.out = x \o @]
      rest2 == SubSeq(t, 3, Len(t))
  IN  IF t = <<>> THEN [err |-> FALSE, out |-> <<>>, used |-> n]
      ELSE IF Head(t) = LB
           THEN IF Len(t) >= 2 /\ t[2] = LB THEN cons(<<LB>>, Format(rest2, args, n))
                ELSE IF Len(t) >= 2 /\ t[2] = RB
                     THEN IF n + 1 > Len(args) THEN FormatError
                          ELSE cons(args[n + 1], Format(rest2, args, n + 1))
                     ELSE FormatError
           ELSE IF Head(t) = RB
                THEN IF Len(t) >= 2 /\ t[2] = RB THEN cons(<<RB>>, Format(rest2, args, n))
                     ELSE FormatError
                ELSE cons(<<Head(t)>>, Format(Tail(t), args, n))

\* Line 151: re.sub(r"### *[\n\r]*S/S", "S/S #/PUNC #/PUNC #/PUNC", text)
TaggedHashes == <<SS, SP, HP, SP, HP, SP, HP>>
RECURSIVE Cleanup(_, _)
Cleanup(text, i) ==
  IF i > Len(text) THEN <<>>
  ELSE LET j == SkipWhile(text, SkipWhile(text, i + 3, {SP}), {LF, CR})
       IN  IF StartsAt(text, i, <<HASH, HASH, HASH>>) /\ StartsAt(text, j, <<SS>>)
           THEN TaggedHashes \o Cleanup(text, j + 1)
           ELSE <<text[i]>> \o Cleanup(text, i + 1)

\* Lines 146-156: [err, data, slots]: whether POS_tag raised, outfp afterwards,
\* and how many slots were filled.
Restore(data, spans, sep) ==
  LET f == Format(SubTaggedPlaceholder(ReadText(data), 1), spans, 0)
  IN  IF f.err THEN [err |-> TRUE, data |-> data, slots |-> 0]
      ELSE [err |-> FALSE, data |-> WriteText(Cleanup(f.out, 1), sep), slots |-> f.used]

\* ------------------------------------------------------------- the inputs
MaxDocPieces == 3   \* the pieces of a document
MaxTagPieces == 3   \* the pieces of a tagger output

RECURSIVE Flatten(_)
Flatten(ss) == IF ss = <<>> THEN <<>> ELSE Head(ss) \o Flatten(Tail(ss))

\* Documents: up to MaxDocPieces pieces, two of them Latin runs long enough
\* for non_ar_regex.
LatinA == <<LATA, LATA, LATA, LATA, LATA, LATA, DOT, LATA>>
LatinB == <<LATB, LATB, LATB, SP, LATB, LATB, LATB, HASH>>
DocPieces == {LatinA, LatinB, <<LTR>>, <<MU>>, <<LB>>, <<RB>>, <<HASH>>,
              <<DOL>>, <<SP>>, <<LF>>}
Docs == {Flatten(ps) : ps \in SeqsUpTo(DocPieces, MaxDocPieces)}

\* What the tagger may emit: up to MaxTagPieces pieces.
Sentence == <<SS, SP, TOK, SP, EE>>
TagPieces == {TaggedPlaceholder, Sentence, <<LF>>, <<LB>>, <<RB>>,
              <<HASH, HASH, HASH>>}
TaggerOutputs == {Flatten(ps) : ps \in SeqsUpTo(TagPieces, MaxTagPieces)}

\* The tagger tags what it reads: a brace, a #, a tagged placeholder character
\* or a tagged word is in its output only when its input has the character.
HasChar(text, c) == \E i \in 1..Len(text) : text[i] = c
TaggerMayEmit(input, out) ==
  /\ \A c \in {LB, RB, HASH} : HasChar(out, c) => HasChar(input, c)
  /\ HasChar(out, MUP) => HasChar(input, MU)
  /\ HasChar(out, TOK) => HasChar(input, LTR)

InitTag ==
  /\ tpc = "idle" /\ only_Arabic = TRUE /\ ditch_non_Arabic = FALSE
  /\ inFile = <<>> /\ non_ar = <<>> /\ tempFile = <<>>
  /\ taggerIn = <<>> /\ tagged = <<>> /\ tagOut = <<>> /\ slots = 0

\* POS_tag(infp, outfp, only_Arabic=..., ditch_non_Arabic=...) on a document.
POSTagEnter ==
  /\ NothingStarted
  /\ tpc = "idle"
  /\ \E doc \in Docs, oa \in BOOLEAN, d \in BOOLEAN :
       /\ inFile' = doc /\ only_Arabic' = oa /\ ditch_non_Arabic' = d
       /\ tpc' = IF ~oa /\ ~d THEN "direct" ELSE "pre"
  /\ UNCHANGED <<linesep, non_ar, tempFile, taggerIn, tagged, tagOut, slots,
                 segVars, batchVars, mainVars, concVars>>

\* Lines 111-112: the tagger jar runs on infp.
POSTagDirect ==
  /\ tpc = "direct"
  /\ taggerIn' = inFile
  /\ \E t \in TaggerOutputs :
       TaggerMayEmit(inFile, t) /\ tagged' = t /\ tagOut' = t
  /\ tpc' = "done"
  /\ UNCHANGED <<linesep, only_Arabic, ditch_non_Arabic, inFile, non_ar,
                 tempFile, slots,
                 segVars, batchVars, mainVars, concVars>>

\* Lines 116-136: the pre-processed text is written to temp.txt.
POSTagPreProcess ==
  /\ tpc = "pre"
  /\ LET text == ReadText(inFile)
     IN  IF ditch_non_Arabic
         THEN /\ tempFile' = WriteText(DitchText(text), linesep)
              /\ non_ar' = non_ar
         ELSE /\ non_ar' = FindAllNonAr(text, 1)
              /\ tempFile' = WriteText(PreserveText(text), linesep)
  /\ tpc' = "call"
  /\ UNCHANGED <<linesep, only_Arabic, ditch_non_Arabic, inFile, taggerIn,
                 tagged, tagOut, slots,
                 segVars, batchVars, mainVars, concVars>>

\* Line 140: the tagger jar runs on temp.txt.
POSTagTaggerRun ==
  /\ tpc = "call"
  /\ taggerIn' = tempFile
  /\ \E t \in TaggerOutputs :
       TaggerMayEmit(tempFile, t) /\ tagged' = t /\ tagOut' = t
  /\ tpc' = IF ditch_non_Arabic THEN "done" ELSE "post"
  /\ UNCHANGED <<linesep, only_Arabic, ditch_non_Arabic, inFile, non_ar,
                 tempFile, slots,
                 segVars, batchVars, mainVars, concVars>>

\* Lines 142-156: the non-Arabic spans are put back.
POSTagRestore ==
  /\ tpc = "post"
  /\ LET r == Restore(tagOut, non_ar, linesep)
     IN  /\ tagOut' = r.data
         /\ slots' = r.slots
         /\ tpc' = IF r.err THEN "failed" ELSE "done"
  /\ UNCHANGED <<linesep, only_Arabic, ditch_non_Arabic, inFile, non_ar,
                 tempFile, taggerIn, tagged,
                 segVars, batchVars, mainVars, concVars>>

\* =========================================================== batchprocess
MaxFiles == 3       \* the entries of a folder

FileNames == {"a.txt", "b.txt", "c.txt", "sub"}
Folders   == {"in", "out"}

\* os.listdir: the entries of the folder, each once, in any order.
Listings == {l \in SeqsUpTo(FileNames, MaxFiles) :
               \A i, j \in 1..Len(l) : i # j => l[i] # l[j]}

\* os.path.join(folder, fn) for an entry name from os.listdir.
PathJoin(folder, fn) == <<folder, "/", fn>>

\* Lines 162-164: the arguments of one call of func.
BatchCallIntoInfolder(inF, outF, fn) ==
  [infp |-> PathJoin(inF, fn), outfp |-> PathJoin(inF, fn)]

BatchCall(inF, outF, fn) ==
  [infp |-> PathJoin(inF, fn), outfp |-> PathJoin(outF, fn)]

InitBatch ==
  /\ bpc = "idle" /\ infolder = "in" /\ outfolder = "out"
  /\ listing = <<>> /\ bidx = 1 /\ calls = <<>>

\* Line 160: batchprocess(func, infolder, outfolder) lists the folder.
BatchEnter ==
  /\ NothingStarted
  /\ bpc = "idle"
  /\ \E inF \in Folders, outF \in Folders, l \in Listings :
       /\ infolder' = inF /\ outfolder' = outF /\ listing' = l
  /\ bpc' = "loop" /\ bidx' = 1
  /\ UNCHANGED <<linesep, calls, segVars, tagVars, mainVars, concVars>>

\* Lines 160-164: one turn of the loop, func returns.
BatchIterate ==
  /\ bpc = "loop" /\ bidx <= Len(listing)
  /\ calls' = Append(calls, BatchCall(infolder, outfolder, listing[bidx]))
  /\ bidx' = bidx + 1
  /\ UNCHANGED <<linesep, bpc, infolder, outfolder, listing, segVars, tagVars,
                 mainVars, concVars>>

\* Lines 160-164: one turn of the loop, func raises (open() on an entry that
\* is a folder, or on an output file the jar did not write): nothing catches it.
BatchIterateRaises ==
  /\ bpc = "loop" /\ bidx <= Len(listing)
  /\ calls' = Append(calls, BatchCall(infolder, outfolder, listing[bidx]))
  /\ bpc' = "raised"
  /\ UNCHANGED <<linesep, bidx, infolder, outfolder, listing, segVars, tagVars,
                 mainVars, concVars>>

\* Line 160: the listing is exhausted.
BatchReturn ==
  /\ bpc = "loop" /\ bidx > Len(listing)
  /\ bpc' = "returned"
  /\ UNCHANGED <<linesep, bidx, infolder, outfolder, listing, calls, segVars,
                 tagVars, mainVars, concVars>>

\* =================================================================== main
MaxOpts == 2        \* the options on a command line

\* Python's optional name (an operation or a path): None, or a str.
NoName  == [none |-> TRUE,  s |-> ""]
Name(a) == [none |-> FALSE, s |-> a]
Falsy(v) == v.none \/ v.s = ""

KnownFuncs == {"segment", "POS_tag"}
FuncArgs   == {"segment", "POS_tag", "tag", ""}
PathArgs   == {"file.txt", "folder", "missing"}
Answers    == PathArgs \cup {"folder ", ""}

Options ==
  {[o |-> f, a |-> ""] : f \in {"-h", "-d", "-r", "-x"}}
  \cup {[o |-> "-f", a |-> a] : a \in FuncArgs}
  \cup {[o |-> "-i", a |-> a] : a \in PathArgs}
  \cup {[o |-> "-o", a |-> "out"], [o |-> "-s", a |-> AT]}

\* Line 185: getopt raises on an option that opt_str does not name.
GetoptError(opts) == \E i \in 1..Len(opts) : opts[i].o = "-x"

\* Lines 190-211: the locals after the loop over the options; -h returns at once.
ParsedInit == [help |-> FALSE, func |-> NoName, infp |-> NoName, outfp |-> NoName,
               split |-> None, restore |-> FALSE, ditch |-> FALSE]
RECURSIVE ParseOptions(_, _)
ParseOptions(opts, st) ==
  IF opts = <<>> THEN st
  ELSE LET opt == Head(opts).o
           arg == Head(opts).a
       IN  IF opt = "-h" THEN [st EXCEPT !.help = TRUE]
           ELSE ParseOptions(Tail(opts),
                  CASE opt = "-d" -> [st EXCEPT !.ditch = TRUE]
                    [] opt = "-r" -> [st EXCEPT !.restore = TRUE]
                    [] opt = "-f" -> [st EXCEPT !.func = Name(arg)]
                    [] opt = "-i" -> [st EXCEPT !.infp = Name(arg)]
                    [] opt = "-o" -> [st EXCEPT !.outfp = Name(arg)]
                    [] opt = "-s" -> [st EXCEPT !.split = Str(<<arg>>)]
                    [] OTHER -> st)

\* str.strip() of a typed answer.
StripAnswer(a) == IF a = "folder " THEN "folder" ELSE a

\* os.path.isdir, os.path.isfile.
IsDir(path)  == path = "folder"
IsFile(path) == path = "file.txt"

MsgInfo      == "info"
MsgUsage     == "Input incorrect"
MsgUnknown   == "Aborting: unknown function."
MsgNoSuch    == "Aborting. No such file or folder"

NoCall == [callee |-> "none", func |-> "", infp |-> "", outfp |-> "",
           restore |-> FALSE, split |-> None, ditch |-> FALSE]

InitMain ==
  /\ mpc = "idle" /\ argv = <<>>
  /\ m_func = NoName /\ m_infp = NoName /\ m_outfp = NoName
  /\ m_split = None /\ m_restore = FALSE /\ m_ditch = FALSE
  /\ printed = <<>> /\ prompts = <<>> /\ invoked = NoCall

\* Lines 179-211: the command line is parsed.
MainParse ==
  /\ NothingStarted
  /\ mpc = "idle"
  /\ \E opts \in SeqsUpTo(Options, MaxOpts) :
       /\ argv' = opts
       /\ IF GetoptError(opts)
          THEN /\ printed' = <<MsgUsage>> /\ mpc' = "done"
               /\ UNCHANGED <<m_func, m_infp, m_outfp, m_split, m_restore, m_ditch>>
          ELSE LET st == ParseOptions(opts, ParsedInit)
               IN  /\ m_func' = st.func /\ m_infp' = st.infp /\ m_outfp' = st.outfp
                   /\ m_split' = st.split /\ m_restore' = st.restore
                   /\ m_ditch' = st.ditch
                   /\ printed' = IF st.help THEN <<MsgInfo>> ELSE <<>>
                   /\ mpc' = IF st.help THEN "done" ELSE "func"
  /\ UNCHANGED <<linesep, prompts, invoked, segVars, tagVars, batchVars, concVars>>

\* Lines 213-217: the operation is asked for when -f gave none.
MainResolveFunc ==
  /\ mpc = "func"
  /\ IF Falsy(m_func)
     THEN \E ans \in FuncArgs :
            /\ prompts' = Append(prompts, "function")
            /\ m_func' = Name(ans)
            /\ IF ans \notin KnownFuncs
               THEN printed' = Append(printed, MsgUnknown) /\ mpc' = "done"
               ELSE printed' = printed /\ mpc' = "in"
     ELSE mpc' = "in" /\ UNCHANGED <<prompts, m_func, printed>>
  /\ UNCHANGED <<linesep, argv, m_infp, m_outfp, m_split, m_restore, m_ditch,
                 invoked, segVars, tagVars, batchVars, concVars>>

\* Lines 218-219: the input path is asked for when -i gave none.
MainResolveIn ==
  /\ mpc = "in"
  /\ IF Falsy(m_infp)
     THEN \E ans \in Answers :
            /\ prompts' = Append(prompts, "input path")
            /\ m_infp' = Name(StripAnswer(ans))
     ELSE UNCHANGED <<prompts, m_infp>>
  /\ mpc' = "out"
  /\ UNCHANGED <<linesep, argv, m_func, m_outfp, m_split, m_restore, m_ditch,
                 printed, invoked, segVars, tagVars, batchVars, concVars>>

\* Lines 220-221: the output path is asked for when -o gave none.
MainResolveOut ==
  /\ mpc = "out"
  /\ IF Falsy(m_outfp)
     THEN \E ans \in {"out", ""} :
            /\ prompts' = Append(prompts, "output path")
            /\ m_outfp' = Name(StripAnswer(ans))
     ELSE UNCHANGED <<prompts, m_outfp>>
  /\ mpc' = "dispatch"
  /\ UNCHANGED <<linesep, argv, m_func, m_infp, m_split, m_restore, m_ditch,
                 printed, invoked, segVars, tagVars, batchVars, concVars>>

\* Lines 222-239: the call main makes for its locals.
MainCall(func, infp, outfp, restore, split, ditch) ==
  LET callee == IF IsDir(infp) THEN "batchprocess"
                ELSE IF IsFile(infp) THEN func ELSE "none"
  IN  IF func \in KnownFuncs /\ callee # "none"
      THEN [callee |-> callee, func |-> func, infp |-> infp, outfp |-> outfp,
            restore |-> IF func = "segment" THEN restore ELSE FALSE,
            split   |-> IF func = "segment" THEN split ELSE None,
            ditch   |-> IF func = "POS_tag" THEN ditch ELSE FALSE]
      ELSE NoCall

\* Lines 222-239.
MainDispatch ==
  /\ mpc = "dispatch"
  /\ invoked' = MainCall(m_func.s, m_infp.s, m_outfp.s, m_restore, m_split, m_ditch)
  /\ printed' = IF m_func.s \in KnownFuncs /\ ~IsDir(m_infp.s) /\ ~IsFile(m_infp.s)
                THEN Append(printed, MsgNoSuch) ELSE printed
  /\ mpc' = "done"
  /\ UNCHANGED <<linesep, argv, m_func, m_infp, m_outfp, m_split, m_restore,
                 m_ditch, prompts, segVars, tagVars, batchVars, concVars>>

\* ======================================= overlapping POS_tag invocations
NumInvocations == 2 \* the POS_tag invocations that may overlap
Invocations == 1..NumInvocations

ConcDocs == {<<LTR>>, <<LTR, DOL>>, LatinA \o <<LTR>>}

NoArgs == [doc |-> <<>>, only_Arabic |-> TRUE, ditch_non_Arabic |-> FALSE]
Direct(a) == ~a.only_Arabic /\ ~a.ditch_non_Arabic

\* Lines 116-136: what an invocation writes to temp.txt.
TempOf(a, sep) ==
  WriteText(IF a.ditch_non_Arabic THEN DitchText(ReadText(a.doc))
            ELSE PreserveText(ReadText(a.doc)), sep)

\* Lines 112, 140: the file content the tagger jar is run on.
TaggerReadsTempAlways(a, temp) == temp

TaggerReads(a, temp) == IF Direct(a) THEN a.doc ELSE temp

InitConc ==
  /\ cpc = [p \in Invocations |-> "idle"]
  /\ cargs = [p \in Invocations |-> NoArgs]
  /\ sharedTemp = <<>>
  /\ cTaggerIn = [p \in Invocations |-> <<>>]
  /\ cTouched = [p \in Invocations |-> FALSE]
  /\ overlapped = FALSE

InProgress(p) == cpc[p] \notin {"idle", "done"}

\* An invocation of POS_tag starts, on its own input file.
ConcEnter(p) ==
  /\ spc = "idle" /\ tpc = "idle" /\ bpc = "idle" /\ mpc = "idle"
  /\ cpc[p] = "idle"
  /\ \E doc \in ConcDocs, oa \in BOOLEAN, d \in BOOLEAN :
       LET a == [doc |-> doc, only_Arabic |-> oa, ditch_non_Arabic |-> d]
       IN  /\ cargs' = [cargs EXCEPT ![p] = a]
           /\ cpc' = [cpc EXCEPT ![p] = IF Direct(a) THEN "direct" ELSE "pre"]
  /\ overlapped' = (overlapped \/ \E q \in Invocations \ {p} : InProgress(q))
  /\ UNCHANGED <<linesep, sharedTemp, cTaggerIn, cTouched, segVars, tagVars,
                 batchVars, mainVars>>

\* Lines 116-136: the invocation writes temp.txt.
ConcPreProcess(p) ==
  /\ cpc[p] = "pre"
  /\ sharedTemp' = TempOf(cargs[p], linesep)
  /\ cTouched' = [cTouched EXCEPT ![p] = TRUE]
  /\ cpc' = [cpc EXCEPT ![p] = "call"]
  /\ UNCHANGED <<linesep, cargs, cTaggerIn, overlapped, segVars, tagVars,
                 batchVars, mainVars>>

\* Lines 112, 140: the invocation's tagger jar runs.
ConcTaggerRun(p) ==
  /\ cpc[p] \in {"direct", "call"}
  /\ cTaggerIn' = [cTaggerIn EXCEPT ![p] = TaggerReads(cargs[p], sharedTemp)]
  /\ cTouched' = [cTouched EXCEPT ![p] = @ \/ cpc[p] = "call"]
  /\ cpc' = [cpc EXCEPT ![p] = "done"]
  /\ UNCHANGED <<linesep, cargs, sharedTemp, overlapped, segVars, tagVars,
                 batchVars, mainVars>>

\* ======================================================== specifications
NextSeg == SegmentFromLibrary \/ SegmentFromMain \/ SegmenterRun \/ SegmentPostProcess
NextPre == POSTagEnter \/ POSTagPreProcess
NextTag == POSTagEnter \/ POSTagDirect \/ POSTagPreProcess \/ POSTagTaggerRun
           \/ POSTagRestore
NextBatch == BatchEnter \/ BatchIterate \/ BatchIterateRaises \/ BatchReturn
NextMain == MainParse \/ MainResolveFunc \/ MainResolveIn \/ MainResolveOut
            \/ MainDispatch
NextConc == \E p \in Invocations :
              ConcEnter(p) \/ ConcPreProcess(p) \/ ConcTaggerRun(p)

Next == NextSeg \/ NextTag \/ NextBatch \/ NextMain \/ NextConc

Init == /\ linesep \in LineSeps
        /\ InitSeg /\ InitTag /\ InitBatch /\ InitMain /\ InitConc
Spec == Init /\ [][Next]_vars
SpecSeg == Init /\ [][NextSeg]_vars
SpecPre == Init /\ [][NextPre]_vars
SpecTag == Init /\ [][NextTag]_vars
SpecBatch == Init /\ [][NextBatch]_vars
SpecMain == Init /\ [][NextMain]_vars
SpecConc == Init /\ [][NextConc]_vars

\* ================================================================= claims
Contains(text, pat) == \E i \in 1..Len(text) : StartsAt(text, i, pat)

RECURSIVE Count(_, _)
Count(text, c) ==
  IF text = <<>> THEN 0
  ELSE (IF Head(text) = c THEN 1 ELSE 0) + Count(Tail(text), c)

\* ---- C1
C1_Case ==
  /\ spc = "done" /\ restore_ta_marbuta /\ split_char = Str(<<AT>>)
  /\ ~Contains(emitted, <<AT>>)
Kitaba == <<LTR, LTR, LTR, LTR, TA>>

\* C1 as stated: with reconnect and split char @, whatever the segmenter
\* emitted (without @), no @ stands right before a ta marbuta in the output
\* file, and kitab+ta comes out as kitabta.
C1_Original ==
  C1_Case => /\ ~Contains(segOut, <<AT, TA>>)
             /\ (emitted = ExampleRaw => segOut = Kitaba)

\* C1 amended: with reconnect and split char @, the output file has an @
\* right before a ta marbuta exactly when the segmenter emitted "++ta" (the +
\* before a reconnected "+ta" is a remaining + and becomes @); kitab+ta comes
\* out as kitabta.
C1_ReconnectBeforeSplit ==
  C1_Case => /\ (Contains(segOut, <<AT, TA>>) <=> Contains(emitted, <<PLUS, PLUS, TA>>))
             /\ (emitted = ExampleRaw => segOut = Kitaba)

C1_Witness == C1_Case /\ emitted = ExampleRaw /\ segOut = Kitaba

\* ---- C2
\* C2 as stated: without reconnect and with a split character c other than +,
\* once segment has ended the text of the output file is the text the segmenter
\* emitted with every + replaced by c and every other character unchanged in
\* its place (both read as text, so a line break is the same line break).
C2_SplitCharReplacesEveryPlus ==
  (/\ spc \in {"done", "failed"} /\ ~restore_ta_marbuta
   /\ ~split_char.none /\ Len(split_char.s) = 1 /\ split_char.s # <<PLUS>>)
  => LET out == ReadText(segOut)
         raw == ReadText(emitted)
     IN  /\ Len(out) = Len(raw)
         /\ \A i \in 1..Len(raw) :
              out[i] = IF raw[i] = PLUS THEN split_char.s[1] ELSE raw[i]

\* ---- C3
\* C3 as stated: when neither option is requested (no reconnect, and split
\* character + from the library or no -s on the command line), the output file
\* after segment is exactly what the segmenter emitted.
C3_NoOptionLeavesFileAsEmitted ==
  (/\ spc \in {"done", "failed"} /\ ~restore_ta_marbuta
   /\ \/ split_char = Str(<<PLUS>>)
      \/ via = "main" /\ split_char = None)
  => segOut = emitted

\* ---- C4
Preserving == only_Arabic /\ ~ditch_non_Arabic
Ended == tpc \in {"done", "failed"}

\* C4 as stated: on a document without a non-Arabic span, POS_tag in
\* preservation mode ends normally and leaves in the output file the text the
\* tagger wrote, as the direct path does.
C4_NoSpanSameAsDirect ==
  (Ended /\ Preserving /\ FindAllNonAr(ReadText(inFile), 1) = <<>>)
  => tpc = "done" /\ ReadText(tagOut) = ReadText(tagged)

\* ---- C5
\* The k-th tagged placeholder line (with the line breaks around it) replaced
\* by the k-th span, for as many spans as there are.
RECURSIVE FillInOrder(_, _, _)
FillInOrder(text, spans, i) ==
  IF i > Len(text) THEN <<>>
  ELSE LET j == SkipWhile(text, i, {LF, CR})
       IN  IF StartsAt(text, j, TaggedPlaceholder)
           THEN (IF spans = <<>> THEN <<>> ELSE Head(spans))
                \o FillInOrder(text, IF spans = <<>> THEN <<>> ELSE Tail(spans),
                               SkipWhile(text, j + Len(TaggedPlaceholder), {LF, CR}))
           ELSE <<text[i]>> \o FillInOrder(text, spans, i + 1)

RECURSIVE CountNonAr(_, _)
CountNonAr(text, i) ==
  IF i > Len(text) THEN 0
  ELSE LET e == NonArMatchEnd(text, i)
       IN  IF e = 0 THEN CountNonAr(text, i + 1) ELSE 1 + CountNonAr(text, e + 1)

PlaceholderLines(data) ==
  Len(SelectSeq(SplitLines(ReadText(data), <<>>), LAMBDA l : l = <<MU, MU, MU>>))

\* C5 as stated: in preservation mode with N >= 1 matches, N spans are remembered,
\* N placeholders are written to temp.txt, and when the tagger renders each
\* placeholder line as the tagged placeholder the restoration fills N slots,
\* the k-th with the k-th span.
C5_CountsAgree ==
  LET N == CountNonAr(ReadText(inFile), 1)
  IN  (Preserving /\ tpc \in {"call", "post", "done", "failed"} /\ N >= 1)
      => /\ Len(non_ar) = N
         /\ Count(tempFile, MU) = Count(inFile, MU) - Count(Flatten(non_ar), MU) + 3 * N
         /\ (Ended /\ CountTaggedPlaceholders(ReadText(tagged), 1)
                      = PlaceholderLines(tempFile))
            => /\ tpc = "done" /\ slots = N
               /\ ReadText(tagOut)
                  = Cleanup(FillInOrder(ReadText(tagged), non_ar, 1), 1)

\* ---- C6
Ditched == ditch_non_Arabic /\ tpc = "call"
C6_Rest ==
  /\ \A c \in StripChars : ~Contains(tempFile, <<c>>)
  /\ \A i \in 1..Len(SplitLines(tempFile, <<>>)) :
       LET l == SplitLines(tempFile, <<>>)[i]
       IN  l # <<>> /\ Strip(l) = l

\* C6 as stated: in removal mode the text written to temp.txt has no
\* placeholder marker, none of # | $, no blank line, and only trimmed lines.
C6_Original ==
  Ditched => ~Contains(tempFile, <<MU, MU, MU>>) /\ C6_Rest

\* C6 amended: in removal mode the text written to temp.txt has none of # | $,
\* no blank line and only trimmed lines, and no placeholder character unless
\* the input text itself has one (removal mode inserts none).
C6_RemovalLeavesCleanText ==
  Ditched => /\ (~Contains(inFile, <<MU>>) => ~Contains(tempFile, <<MU>>))
             /\ Count(tempFile, MU) <= Count(inFile, MU)
             /\ C6_Rest

C6_Witness ==
  /\ Ditched /\ FindAllNonAr(ReadText(inFile), 1) # <<>>
  /\ Contains(inFile, <<DOL>>) /\ ~Contains(inFile, <<MU>>) /\ tempFile # <<>>

\* ---- C7
ExpectedCall(i) ==
  [infp |-> <<infolder, "/", listing[i]>>, outfp |-> <<outfolder, "/", listing[i]>>]

\* C7 as stated: by the time batchprocess on a non-empty folder ends, func was
\* called once for every entry, in listing order, on infolder/name and
\* outfolder/name.
C7_Original ==
  (bpc \in {"returned", "raised"} /\ listing # <<>>)
  => calls = [i \in 1..Len(listing) |-> ExpectedCall(i)]

\* C7 amended: the calls of func are always the calls for a prefix of the
\* listing, in listing order, each on infolder/name and outfolder/name; when
\* batchprocess returns, that prefix is the whole listing (every entry once);
\* when a call raises, batchprocess ends there, the raising call being the last.
C7_EveryEntryOnceInOrder ==
  /\ bpc # "idle" => /\ Len(calls) <= Len(listing)
                     /\ calls = [i \in 1..Len(calls) |-> ExpectedCall(i)]
  /\ bpc = "loop" => Len(calls) = bidx - 1
  /\ bpc = "returned" => Len(calls) = Len(listing)
  /\ bpc = "raised" => Len(calls) = bidx

C7_Witness ==
  /\ bpc = "returned" /\ Len(listing) = 3 /\ Len(calls) = 3
  /\ infolder # outfolder

\* ---- C8
Printed(msg) == \E i \in 1..Len(printed) : printed[i] = msg

\* C8 as stated: when the operation name main ends up with is unknown (from
\* -f or typed), main has printed the abort message, called nothing, and asked
\* for nothing after the name.
C8_UnknownOperationAborts ==
  (/\ mpc = "done" /\ ~Printed(MsgInfo) /\ ~Printed(MsgUsage)
   /\ ~m_func.none /\ m_func.s \notin KnownFuncs)
  => /\ Printed(MsgUnknown)
     /\ invoked = NoCall
     /\ prompts \in {<<>>, <<"function">>}

\* ---- C9
\* C9: an invocation on the direct path never reads or writes temp.txt and
\* its tagger reads its own input file; an invocation that pre-processes and
\* never overlapped another has its tagger read the text it wrote itself.
C9_TempSharedOnlyByPreprocessing ==
  \A p \in Invocations :
    /\ (cpc[p] # "idle" /\ Direct(cargs[p]))
       => /\ ~cTouched[p]
          /\ cpc[p] = "done" => cTaggerIn[p] = cargs[p].doc
    /\ (cpc[p] = "done" /\ ~Direct(cargs[p]) /\ ~overlapped)
       => cTaggerIn[p] = TempOf(cargs[p], linesep)

\* The interleaving C9 says is reachable: an invocation's tagger has read the
\* text another invocation pre-processed from a different document.
C9_Witness ==
  \E p, q \in Invocations :
    /\ p # q /\ cpc[p] = "done" /\ ~Direct(cargs[p]) /\ ~Direct(cargs[q])
    /\ cargs[p].doc # cargs[q].doc
    /\ cTaggerIn[p] = TempOf(cargs[q], linesep)
    /\ cTaggerIn[p] # TempOf(cargs[p], linesep)

\* ---- C10
\* C10 as stated: in preservation mode, with more tagged placeholders than
\* spans POS_tag fails and the output file still holds the tagger's output;
\* with fewer, POS_tag ends without error and only the first spans are put back.
C10_Mismatch ==
  LET occ == CountTaggedPlaceholders(ReadText(tagged), 1)
  IN  (Ended /\ Preserving /\ occ # Len(non_ar))
      => /\ occ > Len(non_ar) => tpc = "failed" /\ tagOut = tagged
         /\ occ < Len(non_ar)
            => /\ tpc = "done"
               /\ ReadText(tagOut)
                  = Cleanup(FillInOrder(ReadText(tagged), SubSeq(non_ar, 1, occ), 1), 1)
===========================================================================
